---- MODULE Spec2Model ----
(***************************************************************************)
(* Model of rl_habitat/habitat_tasks.py: the episodic task state machine   *)
(* of PointNavTask and ObjectNavTask (step, judge, metrics, query_expert)  *)
(* running against the Habitat simulator, which is an external             *)
(* collaborator and is modelled as a nondeterministic environment.         *)
(*                                                                         *)
(* Numbers.  Python floats are modelled as tagged records                  *)
(*   [k |-> "fin", v |-> n]   a finite float, n in hundredths (1.0 = 100)  *)
(*   [k |-> "nan"], [k |-> "inf"], [k |-> "ninf"]   NaN, +inf, -inf        *)
(*   [k |-> "none"]           Python None                                  *)
(* Arithmetic and comparisons follow IEEE-754/Python on these tags;        *)
(* rounding of finite values is not modelled (hundredths are exact).       *)
(***************************************************************************)
EXTENDS Integers, Sequences, FiniteSets, TLC

(* ------------------------------ bounds --------------------------------- *)

\* number of step() calls the driver makes on one task instance
MaxCalls == 2

(* ------------------------- program constants --------------------------- *)

\* max_steps constructor argument of the task
max_steps == 2

\* judge: reward = -0.01, in hundredths
StepCost == -1

\* judge: reward += 10.0 if self._success, in hundredths
TerminalBonus == 1000

END == "end"

PointNavTask_actions == <<"move_ahead", "rotate_left", "rotate_right", "end">>

ObjectNavTask_actions ==
    <<"move_ahead", "rotate_left", "rotate_right", "end", "look_up", "look_down">>

(* --------------------------- Python values ----------------------------- *)

Fin(n) == [k |-> "fin", v |-> n]
NaN == [k |-> "nan", v |-> 0]
PosInf == [k |-> "inf", v |-> 0]
NegInf == [k |-> "ninf", v |-> 0]
None == [k |-> "none", v |-> 0]

\* Optional[bool]
B(b) == [k |-> "bool", v |-> b]
NoneB == [k |-> "none", v |-> FALSE]

\* float negation
FNeg(a) ==
    CASE a.k = "fin" -> Fin(0 - a.v)
      [] a.k = "inf" -> NegInf
      [] a.k = "ninf" -> PosInf
      [] OTHER -> NaN

\* float addition (NaN propagates, inf + -inf = NaN)
FAdd(a, b) ==
    CASE a.k \notin {"fin", "inf", "ninf"} \/ b.k \notin {"fin", "inf", "ninf"} -> NaN
      [] a.k = "fin" /\ b.k = "fin" -> Fin(a.v + b.v)
      [] a.k = "fin" -> b
      [] b.k = "fin" -> a
      [] a.k = b.k -> a
      [] OTHER -> NaN

FSub(a, b) == FAdd(a, FNeg(b))

\* float a < b (False whenever a NaN is involved)
FLt(a, b) ==
    CASE a.k = "nan" \/ b.k = "nan" -> FALSE
      [] a.k = "none" \/ b.k = "none" -> FALSE
      [] a.k = "ninf" -> b.k # "ninf"
      [] b.k = "inf" -> a.k # "inf"
      [] a.k = "fin" /\ b.k = "fin" -> a.v < b.v
      [] OTHER -> FALSE

\* builtin min(a, b) of two arguments: b if b < a else a
PyMin(a, b) == IF FLt(b, a) THEN b ELSE a

\* builtin min raises TypeError when "<" is applied to None and a float
PyMinRaises(a, b) == a.k = "none" \/ b.k = "none"

\* numpy.sum of a list of floats
RECURSIVE np_sum(_)
np_sum(s) == IF s = <<>> THEN Fin(0) ELSE FAdd(np_sum(SubSeq(s, 1, Len(s) - 1)), s[Len(s)])

(* ------------------------ simulator (external) ------------------------- *)

\* finite distance readings the simulator is taken to report: 0.0 and 1.0
FiniteDistances == {Fin(0), Fin(100)}

\* values get_metrics()['distance_to_goal'] may hold
Readings == FiniteDistances \cup {None, NaN, PosInf, NegInf}

\* values get_metrics()['spl'] may hold
SplValues == {None, Fin(0), Fin(50)}

\* agent_position_and_rotation: (x, y, z, heading degrees)
Poses == {<<0, 0, 0, 0>>, <<1, 0, 0, 90>>}

\* what the simulator may report after env.step or at construction; the action is
\* taken to have succeeded exactly when the agent stands at the second pose, a
\* null spl to come only with a null distance (no measurements at all), and a
\* nonzero spl only with a finite distance (success needs a measured distance)
EnvOutcomes ==
    {e \in [distance_to_goal : Readings, spl : SplValues, episode_over : BOOLEAN,
            last_action_success : BOOLEAN, pos : Poses] :
        /\ e.last_action_success = (e.pos = <<1, 0, 0, 90>>)
        /\ (e.spl.k = "none" => e.distance_to_goal.k = "none")
        /\ (e.spl = Fin(50) => e.distance_to_goal.k = "fin")}

\* action indices the driver passes to step: move_ahead and end
StepInputs == {0, 3}

\* what ShortestPathFollower.get_next_action may return
FollowerOutputs == {None, [k |-> "int", v |-> 0]}

(* ------------------------------- state --------------------------------- *)

VARIABLES
    cls,                     \* which task class the instance is
    env,                     \* the simulator's current readings
    env_steps,               \* number of env.step calls made
    num_steps_taken,         \* Task base class step counter
    took_end_action,         \* self._took_end_action
    success,                 \* self._success
    last_action,             \* self._last_action
    last_action_success,     \* self.last_action_success
    last_geodesic_distance,  \* self.last_geodesic_distance
    min_distance_to_goal,    \* self._min_distance_to_goal (ObjectNavTask)
    num_invalid_actions,     \* self._num_invalid_actions (ObjectNavTask)
    rewards,                 \* self._rewards
    actions_taken,           \* self._actions_taken (ObjectNavTask)
    positions,               \* self._positions (ObjectNavTask)
    task_info,               \* self.task_info: key -> name of the object it refers to
    result,                  \* what the last call returned (or raised)
    step_rewards,            \* history: rewards returned by step since the last drain
    raw_min,                 \* history: least numeric raw distance seen (and the initial one)
    initial_distance,        \* history: last_geodesic_distance as __init__ left it
    all_readings_valid       \* history: no step so far read an invalid distance

vars == <<cls, env, env_steps, num_steps_taken, took_end_action, success, last_action,
          last_action_success, last_geodesic_distance, min_distance_to_goal,
          num_invalid_actions, rewards, actions_taken, positions, task_info, result,
          step_rewards, raw_min, initial_distance, all_readings_valid>>

\* fields of the task object itself (everything but the simulator, the return value and history)
task_fields == <<num_steps_taken, took_end_action, success, last_action, last_action_success,
                 last_geodesic_distance, min_distance_to_goal, num_invalid_actions, rewards,
                 actions_taken, positions, task_info>>

(* ----------------------------- helpers --------------------------------- *)

\* variant of IsInvalidDistance that forgets the NaN test
IsInvalidDistance_WithoutNaN(d) == d.k = "none" \/ d.k \in {"ninf", "inf"}

\* the invalid-value test of __init__ and judge
IsInvalidDistance(d) == d.k = "none" \/ d.k \in {"ninf", "inf"} \/ d.k = "nan"

\* variant of InitialDistance that stores the pre-episode reading as it comes
InitialDistance_Unguarded(d) == d

\* __init__: an invalid pre-episode reading is replaced by 0.0
InitialDistance(d) == IF IsInvalidDistance(d) THEN Fin(0) ELSE d

\* judge: an invalid reading is replaced by the stored distance
GuardedDistance(d, last) == IF IsInvalidDistance(d) THEN last ELSE d

\* _is_goal_in_range: bool(get_metrics()['spl'])
is_goal_in_range(e) ==
    CASE e.spl.k = "none" -> FALSE
      [] e.spl.k = "fin" -> e.spl.v # 0
      [] OTHER -> TRUE

\* variant of reached_terminal_state that never reports a terminal state
reached_terminal_state_Never(e) == FALSE

\* reached_terminal_state: self.env.env.episode_over
reached_terminal_state(e) == e.episode_over

\* Task.is_done of the base class: terminal state or step budget used up
is_done(e, n) == reached_terminal_state(e) \/ n >= max_steps

\* variant of BonusTerm that pays the bonus for every `end`, successful or not
BonusTerm_IgnoringSuccess(took, succ) == IF took THEN Fin(TerminalBonus) ELSE Fin(0)

\* judge: the terminal bonus term
BonusTerm(took, succ) == IF took THEN (IF succ THEN Fin(TerminalBonus) ELSE Fin(0)) ELSE Fin(0)

\* variant of ShapedReward with the distance delta taken the wrong way round
ShapedReward_DeltaReversed(last, new, took, succ) ==
    FAdd(FAdd(Fin(StepCost), FSub(new, last)), BonusTerm(took, succ))

\* judge: reward = -0.01 + (last - new) [+ bonus]
ShapedReward(last, new, took, succ) ==
    FAdd(FAdd(Fin(StepCost), FSub(last, new)), BonusTerm(took, succ))

\* PointNavTask.judge
PointNavTask_judge(reading, last, took, succ) ==
    LET new_geodesic_distance == GuardedDistance(reading, last)
    IN [raised |-> FALSE,
        reward |-> ShapedReward(last, new_geodesic_distance, took, succ),
        last_geodesic_distance |-> new_geodesic_distance]

\* ObjectNavTask.judge: min() is applied to the raw reading before the guard
ObjectNavTask_judge(reading, last, mindist, took, succ) ==
    LET new_geodesic_distance == GuardedDistance(reading, last)
    IN [raised |-> PyMinRaises(reading, mindist),
        min_distance_to_goal |-> PyMin(reading, mindist),
        reward |-> ShapedReward(last, new_geodesic_distance, took, succ),
        last_geodesic_distance |-> new_geodesic_distance]

\* variant of TookEndAfter that assigns the flag on every step
TookEndAfter_Reassigned(action_str, took) == action_str = END

\* _step: the END branch sets _took_end_action
TookEndAfter(action_str, took) == IF action_str = END THEN TRUE ELSE took

\* variant of SuccessAfter that evaluates the goal-in-range test on every step
SuccessAfter_OnEveryStep(action_str, e, succ) == is_goal_in_range(e)

\* _step: the END branch sets _success from the goal-in-range test
SuccessAfter(action_str, e, succ) == IF action_str = END THEN is_goal_in_range(e) ELSE succ

\* _step: last_action_success
LastActionSuccessAfter(action_str, e, succ) ==
    IF action_str = END THEN B(SuccessAfter(action_str, e, succ)) ELSE B(e.last_action_success)

\* Task.step of the base class: done of _step, or is_done after counting the step
StepDone(e, n) == is_done(e, n) \/ is_done(e, n + 1)

\* variant of RewardsAfterMetrics that never clears the log
RewardsAfterMetrics_NeverCleared(done, rs) == rs

\* variant of RewardsAfterMetrics that clears the log before the done test
RewardsAfterMetrics_AlwaysCleared(done, rs) == <<>>

\* variant of InvalidActionsAfter that counts the steps that did move the agent
InvalidActionsAfter_Inverted(old_pos, new_pos, n) == IF old_pos # new_pos THEN n + 1 ELSE n

\* ObjectNavTask._step: the counter of steps that left the pose as it was
InvalidActionsAfter(old_pos, new_pos, n) == IF old_pos = new_pos THEN n + 1 ELSE n

\* metrics: the reward log after the call
RewardsAfterMetrics(done, rs) == IF done THEN <<>> ELSE rs

\* metrics: 'spl' defaults to 0.0
MetricsSpl(e) == IF e.spl.k # "none" THEN e.spl ELSE Fin(0)

\* variant of AttachTrajectory that stores the position log under both log keys
AttachTrajectory_LogsMixedUp(ti) ==
    [key \in DOMAIN ti \cup {"taken_actions", "action_names", "followed_path", "episode_id"} |->
        CASE key = "taken_actions" -> "_positions"
          [] key = "action_names" -> "_actions"
          [] key = "followed_path" -> "_positions"
          [] key = "episode_id" -> "_episode_id"
          [] OTHER -> ti[key]]

\* ObjectNavTask.metrics: trajectory fields written into task_info before the done test
AttachTrajectory(ti) ==
    [key \in DOMAIN ti \cup {"taken_actions", "action_names", "followed_path", "episode_id"} |->
        CASE key = "taken_actions" -> "_actions_taken"
          [] key = "action_names" -> "_actions"
          [] key = "followed_path" -> "_positions"
          [] key = "episode_id" -> "_episode_id"
          [] OTHER -> ti[key]]

\* history: least numeric reading seen so far
RawMinAfter(reading, m) == IF FLt(reading, m) THEN reading ELSE m

NoMetrics == [success |-> FALSE, ep_length |-> 0, total_reward |-> None, spl |-> None]

(* ------------------------------- Init ---------------------------------- *)

Init ==
    /\ cls \in {"PointNavTask", "ObjectNavTask"}
    /\ env \in {e \in EnvOutcomes : ~e.episode_over /\ e.pos = <<0, 0, 0, 0>>}
    /\ env_steps = 0
    /\ num_steps_taken = 0
    /\ took_end_action = FALSE
    /\ success = FALSE
    /\ last_action = None
    /\ last_action_success = NoneB
    /\ last_geodesic_distance = InitialDistance(env.distance_to_goal)
    /\ min_distance_to_goal =
          IF cls = "ObjectNavTask" THEN InitialDistance(env.distance_to_goal) ELSE None
    /\ num_invalid_actions = 0
    /\ rewards = <<>>
    /\ actions_taken = <<>>
    /\ positions = <<>>
    /\ task_info = [key \in {"target"} |-> "target"]
    /\ result = [kind |-> "none"]
    /\ step_rewards = <<>>
    /\ raw_min = InitialDistance(env.distance_to_goal)
    /\ initial_distance = InitialDistance(env.distance_to_goal)
    /\ all_readings_valid = TRUE

(* ------------------------------ actions -------------------------------- *)

\* PointNavTask.step(action): Task.step around PointNavTask._step.  The driver does
\* not call step on an episode that is done.
PointNavTask_step(action) ==
    /\ cls = "PointNavTask"
    /\ env_steps < MaxCalls
    /\ ~is_done(env, num_steps_taken)
    /\ \E e \in EnvOutcomes :
        LET action_str == PointNavTask_actions[action + 1]
            took == TookEndAfter(action_str, took_end_action)
            succ == SuccessAfter(action_str, e, success)
            las == LastActionSuccessAfter(action_str, e, success)
            j == PointNavTask_judge(e.distance_to_goal, last_geodesic_distance, took, succ)
        IN  /\ env' = e
            /\ env_steps' = env_steps + 1
            /\ took_end_action' = took
            /\ success' = succ
            /\ last_action_success' = las
            /\ last_geodesic_distance' = j.last_geodesic_distance
            /\ rewards' = Append(rewards, j.reward)
            /\ num_steps_taken' = num_steps_taken + 1
            /\ result' = [kind |-> "step", arg |-> action, reward |-> j.reward,
                          done |-> StepDone(e, num_steps_taken),
                          info |-> [last_action_success |-> las]]
            /\ step_rewards' = Append(step_rewards, j.reward)
            /\ raw_min' = RawMinAfter(e.distance_to_goal, raw_min)
            /\ all_readings_valid' = (all_readings_valid /\ ~IsInvalidDistance(e.distance_to_goal))
    /\ UNCHANGED <<cls, last_action, min_distance_to_goal, num_invalid_actions,
                   actions_taken, positions, task_info, initial_distance>>

\* ObjectNavTask.step(action): Task.step around ObjectNavTask._step.  The driver does
\* not call step on an episode that is done.
ObjectNavTask_step(action) ==
    /\ cls = "ObjectNavTask"
    /\ env_steps < MaxCalls
    /\ ~is_done(env, num_steps_taken)
    /\ \E e \in EnvOutcomes :
        LET pos == env.pos
            old_pos == env.pos
            action_str == ObjectNavTask_actions[action + 1]
            took == TookEndAfter(action_str, took_end_action)
            succ == SuccessAfter(action_str, e, success)
            las == LastActionSuccessAfter(action_str, e, success)
            j == ObjectNavTask_judge(e.distance_to_goal, last_geodesic_distance,
                                     min_distance_to_goal, took, succ)
            new_pos == e.pos
        IN  /\ positions' = Append(positions,
                                   [x |-> pos[1], y |-> pos[2], path_to_rot_degrees |-> pos[4]])
            /\ actions_taken' = Append(actions_taken, action_str)
            /\ env' = e
            /\ env_steps' = env_steps + 1
            /\ took_end_action' = took
            /\ success' = succ
            /\ last_action_success' = las
            /\ raw_min' = RawMinAfter(e.distance_to_goal, raw_min)
            /\ all_readings_valid' = (all_readings_valid /\ ~IsInvalidDistance(e.distance_to_goal))
            /\ IF j.raised
               THEN \* judge raised: nothing after line 295 is executed
                    /\ result' = [kind |-> "error", arg |-> action, exc |-> "TypeError"]
                    /\ UNCHANGED <<min_distance_to_goal, last_geodesic_distance, rewards,
                                   num_steps_taken, num_invalid_actions, step_rewards>>
               ELSE /\ min_distance_to_goal' = j.min_distance_to_goal
                    /\ last_geodesic_distance' = j.last_geodesic_distance
                    /\ rewards' = Append(rewards, j.reward)
                    /\ num_invalid_actions' =
                          InvalidActionsAfter(old_pos, new_pos, num_invalid_actions)
                    /\ num_steps_taken' = num_steps_taken + 1
                    /\ result' = [kind |-> "step", arg |-> action, reward |-> j.reward,
                                  done |-> StepDone(e, num_steps_taken),
                                  info |-> [last_action_success |-> las]]
                    /\ step_rewards' = Append(step_rewards, j.reward)
    /\ UNCHANGED <<cls, last_action, task_info, initial_distance>>

\* PointNavTask.metrics()
PointNavTask_metrics ==
    /\ cls = "PointNavTask"
    /\ LET done == is_done(env, num_steps_taken)
       IN /\ result' =
                IF ~done
                THEN [kind |-> "metrics", keys |-> {}, value |-> NoMetrics]
                ELSE [kind |-> "metrics",
                      keys |-> {"success", "ep_length", "total_reward", "spl"},
                      value |-> [success |-> success, ep_length |-> num_steps_taken,
                                 total_reward |-> np_sum(rewards), spl |-> MetricsSpl(env)]]
          /\ rewards' = RewardsAfterMetrics(done, rewards)
          /\ step_rewards' = IF done THEN <<>> ELSE step_rewards
    /\ UNCHANGED <<cls, env, env_steps, num_steps_taken, took_end_action, success, last_action,
                   last_action_success, last_geodesic_distance, min_distance_to_goal,
                   num_invalid_actions, actions_taken, positions, task_info, raw_min,
                   initial_distance, all_readings_valid>>

\* ObjectNavTask.metrics()
ObjectNavTask_metrics ==
    /\ cls = "ObjectNavTask"
    /\ task_info' = AttachTrajectory(task_info)
    /\ LET done == is_done(env, num_steps_taken)
       IN /\ result' =
                IF ~done
                THEN [kind |-> "metrics", keys |-> {}, value |-> NoMetrics]
                ELSE [kind |-> "metrics",
                      keys |-> {"success", "ep_length", "total_reward", "spl",
                                "min_distance_to_target", "num_invalid_actions", "task_info"},
                      value |-> [success |-> success, ep_length |-> num_steps_taken,
                                 total_reward |-> np_sum(rewards), spl |-> MetricsSpl(env)]]
          /\ rewards' = RewardsAfterMetrics(done, rewards)
          /\ step_rewards' = IF done THEN <<>> ELSE step_rewards
    /\ UNCHANGED <<cls, env, env_steps, num_steps_taken, took_end_action, success, last_action,
                   last_action_success, last_geodesic_distance, min_distance_to_goal,
                   num_invalid_actions, actions_taken, positions, raw_min,
                   initial_distance, all_readings_valid>>

\* variant of IndexOfEnd that takes END to be the last action of the tuple
IndexOfEnd_LastAction(names) == Len(names) - 1

\* index of END in a tuple of action names (0-based, as tuple.index)
IndexOfEnd(names) == (CHOOSE i \in 1..Len(names) : names[i] = END) - 1

\* query_expert of either class
ExpertAnswer(names, e, follower) ==
    IF is_goal_in_range(e)
    THEN [kind |-> "expert", action |-> [k |-> "int", v |-> IndexOfEnd(names)],
          valid |-> TRUE, follower_called |-> FALSE]
    ELSE [kind |-> "expert", action |-> follower, valid |-> follower.k # "none",
          follower_called |-> TRUE]

\* PointNavTask.query_expert()
PointNavTask_query_expert ==
    /\ cls = "PointNavTask"
    /\ \E f \in FollowerOutputs : result' = ExpertAnswer(PointNavTask_actions, env, f)
    /\ UNCHANGED <<cls, env, env_steps, num_steps_taken, took_end_action, success, last_action,
                   last_action_success, last_geodesic_distance, min_distance_to_goal,
                   num_invalid_actions, rewards, actions_taken, positions, task_info,
                   step_rewards, raw_min, initial_distance, all_readings_valid>>

\* ObjectNavTask.query_expert()
ObjectNavTask_query_expert ==
    /\ cls = "ObjectNavTask"
    /\ \E f \in FollowerOutputs : result' = ExpertAnswer(ObjectNavTask_actions, env, f)
    /\ UNCHANGED <<cls, env, env_steps, num_steps_taken, took_end_action, success, last_action,
                   last_action_success, last_geodesic_distance, min_distance_to_goal,
                   num_invalid_actions, rewards, actions_taken, positions, task_info,
                   step_rewards, raw_min, initial_distance, all_readings_valid>>

Next ==
    \/ \E a \in StepInputs : PointNavTask_step(a)
    \/ \E a \in StepInputs : ObjectNavTask_step(a)
    \/ PointNavTask_metrics
    \/ ObjectNavTask_metrics
    \/ PointNavTask_query_expert
    \/ ObjectNavTask_query_expert

Spec == Init /\ [][Next]_vars

(* ------------------------- reading a behaviour ------------------------- *)

\* action_names() of the instance's class
action_names == IF cls = "PointNavTask" THEN PointNavTask_actions ELSE ObjectNavTask_actions

\* this transition is a step() call (it returned or raised)
StepCalled == env_steps' = env_steps + 1

\* this transition is a step() call that returned a step result
StepReturned == StepCalled /\ result'.kind = "step"

\* the action name passed to the step() call of this transition
StepActionName == action_names[result'.arg + 1]

\* this transition is a metrics() call (the only calls that return a metrics mapping)
MetricsCalled == result'.kind = "metrics"

\* the distance reading of this transition's step is NaN, +inf or -inf
ReadingNotANumber == env'.distance_to_goal.k \in {"nan", "inf", "ninf"}

(* ------------------------------- claims -------------------------------- *)

\* C1: an `end` step sets success to the goal-in-range predicate read at that step;
\* the reward it returns is -0.01 + distance delta, plus 10.0 exactly when the
\* predicate is true.
C1_EndSetsSuccessAndBonus ==
    [][(StepCalled /\ StepActionName = END) =>
          /\ success' = is_goal_in_range(env')
          /\ (StepReturned =>
                result'.reward =
                    FAdd(FAdd(Fin(StepCost),
                              FSub(last_geodesic_distance,
                                   GuardedDistance(env'.distance_to_goal, last_geodesic_distance))),
                         IF is_goal_in_range(env') THEN Fin(TerminalBonus) ELSE Fin(0)))]_vars

\* C1 witness: an `end` step with the goal in range returned 1.0 - 0.01 + 10.0
C1_Witness ==
    /\ result.kind = "step"
    /\ action_names[result.arg + 1] = END
    /\ success
    /\ is_goal_in_range(env)
    /\ result.reward = Fin(1099)

\* C2: while no `end` has been issued, every reward returned by step is exactly
\* -0.01 + (stored distance before the step - new distance), the new distance being
\* the reading or, for an invalid reading, the stored distance; no bonus is added.
C2_ShapedRewardWithoutEnd ==
    [][(StepReturned /\ ~took_end_action') =>
          result'.reward =
              FAdd(Fin(StepCost),
                   FSub(last_geodesic_distance,
                        IF IsInvalidDistance(env'.distance_to_goal)
                        THEN last_geodesic_distance ELSE env'.distance_to_goal))]_vars

\* C2 witness: two steps, none of them `end`, the second one moving away from the goal
C2_Witness ==
    /\ result.kind = "step"
    /\ ~took_end_action
    /\ num_steps_taken = 2
    /\ result.reward = Fin(-101)

C4_TookEndActionStaysTrue == [][took_end_action => took_end_action']_vars

\* C4 witness: a step with another action was executed after `end`
C4_Witness ==
    /\ took_end_action
    /\ result.kind = "step"
    /\ action_names[result.arg + 1] # END

\* C5: a step whose distance reading is NaN, +inf or -inf leaves
\* last_geodesic_distance as it was.
C5_InvalidReadingKeepsDistance ==
    [][(StepCalled /\ ReadingNotANumber) =>
          last_geodesic_distance' = last_geodesic_distance]_vars

\* C5 witness: a step with a NaN reading has returned while the stored distance is 1.0
C5_Witness ==
    /\ result.kind = "step"
    /\ env.distance_to_goal = NaN
    /\ last_geodesic_distance = Fin(100)

\* C6 as claimed: a step whose distance reading is null, +inf, -inf or NaN raises
\* nothing: it returns a step result whose reward uses the stored distance.
C6_InvalidReadingNeverRaises ==
    [][(StepCalled /\ (ReadingNotANumber \/ env'.distance_to_goal = None)) =>
          /\ result'.kind = "step"
          /\ result'.reward =
                FAdd(Fin(StepCost),
                     IF took_end_action' /\ success' THEN Fin(TerminalBonus) ELSE Fin(0))]_vars

\* C7: metrics() on a done episode returns total_reward equal to the sum of the rewards
\* returned by step since the previous drain, and leaves the reward log empty.
C7_MetricsDrainsSum ==
    [][(MetricsCalled /\ is_done(env, num_steps_taken)) =>
          /\ "total_reward" \in result'.keys
          /\ result'.value.total_reward = np_sum(step_rewards)
          /\ rewards' = <<>>]_vars

\* C7 witness: a drain returned the sum of two step rewards
C7_Witness ==
    /\ result.kind = "metrics"
    /\ "total_reward" \in result.keys
    /\ result.value.total_reward = Fin(1098)
    /\ num_steps_taken = 2
    /\ rewards = <<>>

\* C8: metrics() on an episode that is not done returns an empty mapping and leaves
\* the reward log as it was, so the log still holds every reward returned by step.
C8_EarlyMetricsKeepsLog ==
    [][(MetricsCalled /\ ~is_done(env, num_steps_taken)) =>
          /\ result'.keys = {}
          /\ rewards' = rewards
          /\ rewards' = step_rewards']_vars

\* C8 witness: metrics() returned nothing while a reward was in the log
C8_Witness ==
    /\ result.kind = "metrics"
    /\ result.keys = {}
    /\ Len(rewards) = 1
    /\ ~is_done(env, num_steps_taken)

\* C9 as claimed: metrics() on an episode that is not done changes no field of the task.
C9_EarlyMetricsChangesNothing ==
    [][(MetricsCalled /\ ~is_done(env, num_steps_taken)) => UNCHANGED task_fields]_vars

\* C9 amended: metrics() on an episode that is not done changes no field of a
\* PointNavTask; on an ObjectNavTask it changes task_info only, which gets the keys
\* taken_actions, action_names, followed_path and episode_id.
C9_EarlyMetricsChangesTaskInfoOnly ==
    [][(MetricsCalled /\ ~is_done(env, num_steps_taken)) =>
          /\ UNCHANGED <<num_steps_taken, took_end_action, success, last_action,
                         last_action_success, last_geodesic_distance, min_distance_to_goal,
                         num_invalid_actions, rewards, actions_taken, positions>>
          /\ cls = "PointNavTask" => task_info' = task_info
          /\ cls = "ObjectNavTask" =>
                /\ DOMAIN task_info' =
                      DOMAIN task_info \cup
                          {"taken_actions", "action_names", "followed_path", "episode_id"}
                /\ task_info'["taken_actions"] = "_actions_taken"
                /\ task_info'["action_names"] = "_actions"
                /\ task_info'["followed_path"] = "_positions"
                /\ task_info'["episode_id"] = "_episode_id"
                /\ task_info'["target"] = task_info["target"]]_vars

\* C9 witness: an ObjectNavTask that is not done has answered metrics() after a step
C9_Witness ==
    /\ cls = "ObjectNavTask"
    /\ result.kind = "metrics"
    /\ result.keys = {}
    /\ "followed_path" \in DOMAIN task_info
    /\ Len(actions_taken) = 1

\* C10 as claimed: min_distance_to_goal of an ObjectNavTask never increases from one
\* step to the next and is not above any numeric distance seen so far (the initial
\* distance and the raw readings).
C10_MinDistanceIsRunningMinimum ==
    /\ [][(StepCalled /\ cls = "ObjectNavTask") =>
             ~FLt(min_distance_to_goal, min_distance_to_goal')]_vars
    /\ [](cls = "ObjectNavTask" => ~FLt(raw_min, min_distance_to_goal))

\* float a <= b (False whenever a NaN is involved)
FLe(a, b) == a.k # "nan" /\ b.k # "nan" /\ (FLt(a, b) \/ a = b)

\* C11 as claimed: min_distance_to_goal <= last_geodesic_distance in every state of an
\* ObjectNavTask, whatever the distance readings were.
C11_MinNotAboveLastDistance ==
    cls = "ObjectNavTask" => FLe(min_distance_to_goal, last_geodesic_distance)

\* C12: a step of an ObjectNavTask that runs to its end adds one to num_invalid_actions
\* when the pose read after the action equals the pose read before it, and leaves the
\* counter as it was otherwise; `end` is treated like every other action.
C12_InvalidActionCounted ==
    [][(StepReturned /\ cls = "ObjectNavTask") =>
          num_invalid_actions' =
              num_invalid_actions + (IF env'.pos = env.pos THEN 1 ELSE 0)]_vars

\* C12 witness: of two steps, the last one `end`, exactly one left the pose unchanged
C12_Witness ==
    /\ cls = "ObjectNavTask"
    /\ result.kind = "step"
    /\ action_names[result.arg + 1] = END
    /\ num_steps_taken = 2
    /\ num_invalid_actions = 1
    /\ positions[2].x = env.pos[1]

\* C13: query_expert() called while the goal is in range returns (index of `end` in the
\* class's action tuple, True), does not consult the shortest-path follower, and changes
\* neither the task's fields nor the simulator.
C13_ExpertEndsWhenInRange ==
    [][(result'.kind = "expert" /\ is_goal_in_range(env)) =>
          /\ result'.action.k = "int"
          /\ action_names[result'.action.v + 1] = END
          /\ result'.valid
          /\ ~result'.follower_called
          /\ UNCHANGED <<env, env_steps, task_fields>>]_vars

\* C13 witness: the expert was asked after a step that left the goal in range
C13_Witness ==
    /\ result.kind = "expert"
    /\ is_goal_in_range(env)
    /\ result.valid
    /\ num_steps_taken = 1

\* C14 as claimed: the info mapping of every step result holds the action index that
\* was passed in and last_action_success.
C14_InfoHasActionAndSuccess ==
    result.kind = "step" =>
        /\ "last_action_success" \in DOMAIN result.info
        /\ "action" \in DOMAIN result.info
        /\ result.info["action"] = result.arg

\* C18 as claimed: after step(action_index) has returned, last_action is the action name
\* at position action_index of the class's action tuple.
C18_LastActionIsActionName ==
    result.kind = "step" =>
        /\ last_action.k = "str"
        /\ last_action.v = action_names[result.arg + 1]

\* the reward this transition's step returned contains the 10.0 bonus on top of
\* -0.01 + distance delta
BonusPaid ==
    result'.reward =
        FAdd(FAdd(Fin(StepCost),
                  FSub(last_geodesic_distance,
                       GuardedDistance(env'.distance_to_goal, last_geodesic_distance))),
             Fin(TerminalBonus))

\* C15 as claimed: after n steps whose distance readings were all valid, the rewards
\* logged sum to (initial distance - current distance) - 0.01 * n, plus 10.0 if the
\* last step was a successful `end` (metrics() reports the sum of this log, see C7).
C15_TotalRewardTelescopes ==
    (result.kind = "step" /\ all_readings_valid /\ Len(rewards) = num_steps_taken) =>
        np_sum(rewards) =
            FAdd(FAdd(FSub(initial_distance, last_geodesic_distance),
                      Fin(StepCost * num_steps_taken)),
                 IF action_names[result.arg + 1] = END /\ success
                 THEN Fin(TerminalBonus) ELSE Fin(0))

\* C16 as claimed: the 10.0 bonus is in the reward of a step exactly when that step
\* issues `end` with the goal in range, so it is paid at most once.
C16_BonusOnlyOnSuccessfulEnd ==
    [][StepReturned =>
          (BonusPaid <=> (StepActionName = END /\ is_goal_in_range(env')))]_vars

\* C17 as claimed: once took_end_action or the simulator's episode-over flag is true,
\* no later step changes success.
C17_SuccessFixedAfterTermination ==
    [][(StepCalled /\ (took_end_action \/ env.episode_over)) => success' = success]_vars

\* C19: success is true only when took_end_action is true; it is false from construction
\* until an `end` step is executed (took_end_action goes from false to true once, C4).
C19_SuccessOnlyAfterEnd == success => took_end_action

\* C19 witness: a step other than `end` ran with the goal in range and success stayed
\* false
C19_Witness ==
    /\ result.kind = "step"
    /\ action_names[result.arg + 1] # END
    /\ is_goal_in_range(env)
    /\ ~took_end_action
    /\ ~success

\* C20: last_geodesic_distance is a finite number in every state, after construction
\* with any pre-episode reading and after any steps.
C20_LastDistanceFinite == last_geodesic_distance.k = "fin"

\* C20 witness: a step read NaN and the stored distance stayed the finite 0.0
C20_Witness ==
    /\ result.kind = "step"
    /\ env.distance_to_goal = NaN
    /\ last_geodesic_distance = Fin(0)
    /\ initial_distance = Fin(0)
    /\ num_steps_taken = 1

====
